---- MODULE Spec2Model ----
(***************************************************************************)
(* NeuroGuard Bio-API (src/Main.py): the serial acquisition path with its  *)
(* fallback to mock data, the analysis stub, and the four HTTP endpoints.  *)
(*                                                                         *)
(* Representation.  A Python str is a sequence of one-character strings,   *)
(* a bytes object is a sequence of integers 0..255.  A reading_value is an *)
(* integer number of hundredths (75.5 is 7550): every value of the model   *)
(* has at most two decimals, as round(value, 2) gives the mock values.     *)
(*                                                                         *)
(* Main.py as committed does not compile under CPython >= 3.6 (line 88     *)
(* declares IS_SERIAL_ACTIVE global after line 80 has used it).  The model *)
(* gives read_serial_data the meaning the language defines for a global    *)
(* statement: it holds for the whole function body.                        *)
(***************************************************************************)
EXTENDS Integers, Sequences, FiniteSets, TLC

VARIABLES
  started,            \* startup_event has run (the app serves only afterwards)
  IS_SERIAL_ACTIVE,   \* Main.py:17
  serial_connection,  \* Main.py:18, None or the Serial handle
  request,            \* the request being answered: endpoint and body
  wire,               \* what the device did on the readline of this request
  io,                 \* device calls made by the last step, and its exit
  analysis,           \* the local `analysis` of analyze_and_update
  response            \* the HTTP response of the last request

vars ==
  << started, IS_SERIAL_ACTIVE, serial_connection, request, wire, io,
     analysis, response >>

\* ---------------------------------------------------------------- bounds

\* The spaces the device puts on each side of a field when it pads a line.
MaxPad == 1

\* Most comma-separated fields the device puts on one line.
MaxFields == 3

\* ------------------------------------------------------------ str, bytes

\* The ASCII codes of the characters of the line protocol: <<code, character>>.
Ascii ==
  { <<10, "\n">>, <<32, " ">>, <<43, "+">>, <<44, ",">>, <<45, "-">>,
    <<46, ".">>, <<48, "0">>, <<49, "1">>, <<50, "2">>, <<51, "3">>,
    <<52, "4">>, <<53, "5">>, <<54, "6">>, <<55, "7">>, <<56, "8">>,
    <<57, "9">>, <<65, "A">>, <<66, "B">>, <<67, "C">>, <<68, "D">>,
    <<69, "E">>, <<70, "F">>, <<71, "G">>, <<72, "H">>, <<73, "I">>,
    <<74, "J">>, <<75, "K">>, <<76, "L">>, <<77, "M">>, <<78, "N">>,
    <<79, "O">>, <<80, "P">>, <<81, "Q">>, <<82, "R">>, <<83, "S">>,
    <<84, "T">>, <<85, "U">>, <<86, "V">>, <<87, "W">>, <<88, "X">>,
    <<89, "Y">>, <<90, "Z">>, <<97, "a">>, <<98, "b">>, <<99, "c">>,
    <<100, "d">>, <<101, "e">>, <<102, "f">>, <<103, "g">>, <<104, "h">>,
    <<105, "i">>, <<106, "j">>, <<107, "k">>, <<108, "l">>, <<109, "m">>,
    <<110, "n">>, <<111, "o">>, <<112, "p">>, <<113, "q">>, <<114, "r">>,
    <<115, "s">>, <<116, "t">>, <<117, "u">>, <<118, "v">>, <<119, "w">>,
    <<120, "x">>, <<121, "y">>, <<122, "z">> }

Ord(c) ==
  (CHOOSE p \in Ascii : p[2] = c)[1]

\* The character of a byte below 128.
Chr(b) ==
  (CHOOSE p \in Ascii : p[1] = b)[2]

\* str.encode: the bytes the device writes for a text.
encode(s) ==
  [i \in 1..Len(s) |-> Ord(s[i])]

\* bytes.decode('utf-8') raises UnicodeDecodeError: a byte 0xF8..0xFF starts no
\* UTF-8 sequence.  (The only bytes above 127 the model's device sends.)
UnicodeDecodeError(bytes) ==
  \E i \in 1..Len(bytes) : bytes[i] >= 248

\* bytes.decode('utf-8') of ASCII bytes.
decode(bytes) ==
  [i \in 1..Len(bytes) |-> Chr(bytes[i])]

\* s[m:n], 1-based and inclusive; empty when m > n.
Slice(s, m, n) ==
  [i \in 1..(n - m + 1) |-> s[m + i - 1]]

IsSpace(c) ==
  c \in {" ", "\n", "\t", "\r"}

RECURSIVE lstrip(_)
lstrip(s) ==
  IF s # << >> /\ IsSpace(Head(s)) THEN lstrip(Tail(s)) ELSE s

RECURSIVE rstrip(_)
rstrip(s) ==
  IF s # << >> /\ IsSpace(s[Len(s)])
  THEN rstrip(Slice(s, 1, Len(s) - 1))
  ELSE s

\* str.strip()
strip(s) ==
  rstrip(lstrip(s))

\* The field before the first comma, or the whole text.
RECURSIVE FirstField(_)
FirstField(s) ==
  IF s = << >> \/ Head(s) = "," THEN << >>
  ELSE << Head(s) >> \o FirstField(Tail(s))

\* str.split(','): always at least one part.
RECURSIVE split(_)
split(s) ==
  LET f == FirstField(s)
  IN  IF Len(f) = Len(s) THEN << f >>
      ELSE << f >> \o split(Slice(s, Len(f) + 2, Len(s)))

IsDigit(c) ==
  c \in {"0", "1", "2", "3", "4", "5", "6", "7", "8", "9"}

DigitVal(c) ==
  Ord(c) - 48

RECURSIVE NatOf(_)
NatOf(s) ==
  IF s = << >> THEN 0
  ELSE 10 * NatOf(Slice(s, 1, Len(s) - 1)) + DigitVal(s[Len(s)])

\* The number a text spells: [sign] digits [. digits] with at least one digit.
\* val is in hundredths; decimals after the second are dropped (the model's
\* device sends none).  Exponents, inf, nan and underscores are outside the
\* model's lines.
strtod(text) ==
  LET t    == strip(text)
      neg  == t # << >> /\ Head(t) = "-"
      body == IF t # << >> /\ Head(t) \in {"-", "+"} THEN Tail(t) ELSE t
      dots == {i \in 1..Len(body) : body[i] = "."}
      dot  == IF dots = {} THEN Len(body) + 1 ELSE CHOOSE i \in dots : TRUE
      ip   == Slice(body, 1, dot - 1)
      fp   == Slice(body, dot + 1, Len(body))
      wellformed ==
        /\ Cardinality(dots) <= 1
        /\ Len(ip) + Len(fp) >= 1
        /\ \A i \in 1..Len(body) : i \in dots \/ IsDigit(body[i])
      mag  == 100 * NatOf(ip)
              + (IF Len(fp) = 0 THEN 0
                 ELSE IF Len(fp) = 1 THEN 10 * NatOf(fp)
                 ELSE NatOf(Slice(fp, 1, 2)))
  IN  [ok |-> wellformed,
       val |-> IF ~wellformed THEN 0 ELSE IF neg THEN 0 - mag ELSE mag]

\* float(text): ok is FALSE where Python raises ValueError.
float(text) ==
  strtod(text)

\* ------------------------------------------------------------ data model

EEG == <<"E", "E", "G">>
ECG == <<"E", "C", "G">>
GSR == <<"G", "S", "R">>
XYZ == <<"X", "Y", "Z">>

\* Literal["EEG", "ECG", "GSR"]
SignalTypes == {EEG, ECG, GSR}

NG_User_1234 ==
  <<"N", "G", "-", "U", "s", "e", "r", "-", "1", "2", "3", "4">>

NG_Simulated_User_789 ==
  <<"N", "G", "-", "S", "i", "m", "u", "l", "a", "t", "e", "d", "-",
    "U", "s", "e", "r", "-", "7", "8", "9">>

NG_Serial_Device ==
  <<"N", "G", "-", "S", "e", "r", "i", "a", "l", "-",
    "D", "e", "v", "i", "c", "e">>

user42 == <<"u", "s", "e", "r", "4", "2">>

None == "None"

SERIAL_PORT == "COM99"

\* A BioSignalData that accepts any signal_type.
BioSignalData_unvalidated(signal_type, reading_value, timestamp, user_id) ==
  [ok |-> TRUE,
   value |-> [signal_type |-> signal_type, reading_value |-> reading_value,
              timestamp |-> timestamp, user_id |-> user_id]]

\* BioSignalData(...): pydantic validates the fields on construction; ok is
\* FALSE where it raises ValidationError (a ValueError).  The timestamp default
\* is the datetime.now() of the class definition, "import_time".
BioSignalData(signal_type, reading_value, timestamp, user_id) ==
  [ok |-> signal_type \in SignalTypes,
   value |-> [signal_type |-> signal_type, reading_value |-> reading_value,
              timestamp |-> timestamp, user_id |-> user_id]]

\* ------------------------------------------------------------ the device

Field1Tokens == {EEG, ECG, XYZ, << >>}

\* The texts the device sends for a value, with the number each spells.
NumberTokens ==
  { [text |-> <<"7", "5", ".", "5">>, val |-> 7550],
    [text |-> <<"-", "1", ".", "5">>, val |-> 0 - 150] }

NotANumber ==
  { <<"a", "b", "c">>, << >> }

Field2Tokens == {t.text : t \in NumberTokens} \cup NotANumber

UserTokens == {user42, << >>}

\* The field sequences of one to MaxFields fields; a field after the third is
\* user42.
FieldSeqs ==
  UNION { { f \in [1..n -> Field1Tokens \cup Field2Tokens \cup UserTokens] :
              /\ f[1] \in Field1Tokens
              /\ n >= 2 => f[2] \in Field2Tokens
              /\ n >= 3 => f[3] \in UserTokens
              /\ \A i \in 4..n : f[i] = user42 }
          : n \in 1..MaxFields }

RECURSIVE Spaces(_)
Spaces(n) ==
  IF n = 0 THEN << >> ELSE <<" ">> \o Spaces(n - 1)

\* The text of a line: the fields, each between pad spaces, joined by commas.
RECURSIVE Join(_, _)
Join(fields, pad) ==
  IF Len(fields) = 1 THEN Spaces(pad) \o fields[1] \o Spaces(pad)
  ELSE Spaces(pad) \o fields[1] \o Spaces(pad) \o <<",">>
       \o Join(Tail(fields), pad)

\* What one readline() on the device can meet.
Idle == [kind |-> "idle", fields |-> << >>, pad |-> 0]

Wire ==
  { [kind |-> "line", fields |-> f, pad |-> p] :
      f \in FieldSeqs, p \in {0, MaxPad} }
  \cup { [kind |-> k, fields |-> << >>, pad |-> 0] :
           k \in {"timeout", "undecodable", "SerialException"} }

\* The bytes readline() returns: a newline-terminated ASCII line, nothing at the
\* read timeout, or a line holding a byte that is no UTF-8.
readline(w) ==
  CASE w.kind = "line" -> encode(Join(w.fields, w.pad) \o <<"\n">>)
    [] w.kind = "undecodable" -> <<69, 69, 71, 44, 255, 10>>
    [] OTHER -> << >>

\* ----------------------------------------------------------- operations

NoBody == [none |-> TRUE]

NoRequest == [endpoint |-> "none", body |-> NoBody]

NoResponse == [endpoint |-> "none", status |-> 0, body |-> NoBody]

NoIO == [opens |-> 0, readlines |-> 0, exit |-> "none"]

NoAnalysis ==
  [action_suggestion |-> "", risk_level |-> "",
   consent_ledger_update |-> <<"", << >>, "", "", "">>]

\* An exception that reaches the framework: 500 Internal Server Error.
InternalServerError == [detail |-> "Internal Server Error"]

\* A request body pydantic rejects: 422 Unprocessable Entity.
UnprocessableEntity == [detail |-> "validation error"]

\* initialize_serial(): opened says whether Serial(SERIAL_PORT, BAUDRATE,
\* timeout=1) returned a handle or raised SerialException.
initialize_serial_keeps_flag(opened) ==
  /\ IS_SERIAL_ACTIVE' = TRUE
  /\ serial_connection' = IF opened THEN "Serial" ELSE None

initialize_serial(opened) ==
  IF opened
  THEN /\ serial_connection' = "Serial"
       /\ IS_SERIAL_ACTIVE' = TRUE
  ELSE /\ IS_SERIAL_ACTIVE' = FALSE
       /\ serial_connection' = None

\* startup_event: runs once, before the first request is served.
startup_event ==
  /\ ~started
  /\ started' = TRUE
  /\ \E opened \in BOOLEAN :
       /\ initialize_serial(opened)
       /\ io' = [opens |-> 1, readlines |-> 0,
                 exit |-> IF opened THEN "opened" ELSE "SerialException"]
  /\ UNCHANGED << request, wire, analysis, response >>

\* The results of read_serial_data: ret is the returned line or None, raised
\* an exception that leaves the function, active the flag afterwards,
\* readlines the readline() calls made.
NoLine == [some |-> FALSE, line |-> << >>]

\* Not called: the connection is absent or inactive.
NotRead ==
  [ret |-> NoLine, raised |-> "none", active |-> IS_SERIAL_ACTIVE,
   readlines |-> 0]

\* serial_connection.readline().decode('utf-8').strip() (line 83) when the
\* device does w: the stripped line, or the UnicodeDecodeError raised.
readline_decode_strip(w) ==
  LET bytes == readline(w)
  IN  IF UnicodeDecodeError(bytes)
      THEN [raised |-> "UnicodeDecodeError", line |-> << >>]
      ELSE [raised |-> "none", line |-> strip(decode(bytes))]

\* readline_decode_strip, computed once for every w.
Line83 ==
  [w \in Wire |-> readline_decode_strip(w)] @@ << >>

\* The try block of read_serial_data, with w what the device does.
try_readline(w) ==
  IF w.kind = "SerialException"
  THEN \* except SerialException: IS_SERIAL_ACTIVE = False; return None
       [ret |-> NoLine, raised |-> "none", active |-> FALSE, readlines |-> 1]
  ELSE IF Line83[w].raised # "none"
  THEN \* no SerialException: the exception leaves the function
       [ret |-> NoLine, raised |-> Line83[w].raised,
        active |-> IS_SERIAL_ACTIVE, readlines |-> 1]
  ELSE [ret |-> IF Line83[w].line # << >>
                THEN [some |-> TRUE, line |-> Line83[w].line]
                ELSE NoLine,
        raised |-> "none", active |-> IS_SERIAL_ACTIVE, readlines |-> 1]

\* A read_serial_data that tests the handle alone.
read_serial_data_ignoring_flag(w) ==
  IF serial_connection # None THEN try_readline(w) ELSE NotRead

\* A read_serial_data that also disables the connection on an empty line.
read_serial_data_disabling_on_empty(w) ==
  IF serial_connection # None /\ IS_SERIAL_ACTIVE
  THEN LET r == try_readline(w)
       IN  IF r.raised = "none" /\ ~r.ret.some
           THEN [r EXCEPT !.active = FALSE]
           ELSE r
  ELSE NotRead

\* read_serial_data(): ret is the returned line or None, raised an exception
\* that leaves the function, active the flag afterwards, readlines the
\* readline() calls made.
read_serial_data(w) ==
  IF serial_connection # None /\ IS_SERIAL_ACTIVE
  THEN try_readline(w)
  ELSE NotRead

\* random.uniform(a, b) rounded to two decimals, in hundredths: the ends of the
\* range stand for the draws.
uniform(a, b) ==
  {a, b}

\* generate_mock_data(): the readings it can return.
generate_mock_data ==
  UNION { { BioSignalData(signal_type, value, "request_time",
                          NG_Simulated_User_789).value :
              value \in IF signal_type = EEG THEN uniform(5000, 15000)
                        ELSE IF signal_type = ECG THEN uniform(6000, 10000)
                        ELSE uniform(10, 500) }
          : signal_type \in SignalTypes }

\* A parse that fills a missing or unreadable value with 0.0.
parse_raw_data_partial(raw_data) ==
  LET parts == split(raw_data)
      value == IF Len(parts) >= 2 THEN strtod(strip(parts[2])).val ELSE 0
  IN  BioSignalData(strip(parts[1]), value, "import_time", NG_Serial_Device)

\* A parse that takes the user id only from a line of more than three parts.
parse_raw_data_late_user(raw_data) ==
  LET parts == split(raw_data)
      reading_value == float(strip(parts[2]))
      data == BioSignalData(strip(parts[1]), reading_value.val, "import_time",
                            IF Len(parts) > 3 THEN strip(parts[3])
                            ELSE NG_Serial_Device)
  IN  IF Len(parts) >= 2 /\ reading_value.ok /\ data.ok
      THEN [ok |-> TRUE, value |-> data.value]
      ELSE [ok |-> FALSE, value |-> NoBody]

\* The try block of get_live_biosignals (lines 155-173): ok is FALSE where it
\* falls through to the mock data, by too few parts or by a caught exception.
parse_raw_data(raw_data) ==
  LET parts == split(raw_data)
  IN  IF Len(parts) >= 2
      THEN LET signal_type   == strip(parts[1])
               reading_value == float(strip(parts[2]))
               user_id       == IF Len(parts) > 2 THEN strip(parts[3])
                                ELSE NG_Serial_Device
               data == BioSignalData(signal_type, reading_value.val,
                                     "import_time", user_id)
           IN  IF ~reading_value.ok
               THEN [ok |-> FALSE, value |-> NoBody]    \* except ValueError
               ELSE IF ~data.ok
               THEN [ok |-> FALSE, value |-> NoBody]    \* ValidationError
               ELSE [ok |-> TRUE, value |-> data.value]
      ELSE [ok |-> FALSE, value |-> NoBody]

\* parse_raw_data, computed once for every line the device can deliver.
Parsed ==
  [raw_data \in {Line83[w].line : w \in Wire} |-> parse_raw_data(raw_data)]
  @@ << >>

\* The rest of get_live_biosignals once read_serial_data has returned r:
\* the response and how the handler left.
live_response(r, mock) ==
  IF r.raised # "none"
  THEN [status |-> 500, body |-> InternalServerError, exit |-> "raised"]
  ELSE IF r.ret.some /\ Parsed[r.ret.line].ok
  THEN [status |-> 200, body |-> Parsed[r.ret.line].value, exit |-> "parsed"]
  ELSE [status |-> 200, body |-> mock, exit |-> "mock"]

\* A get_live_biosignals that reads a second time when the first read gave
\* no line.
get_live_biosignals_retrying ==
  /\ started
  /\ \E w1 \in Wire, w2 \in Wire, mock \in generate_mock_data :
       LET r1 == read_serial_data(w1)
           again == r1.raised = "none" /\ ~r1.ret.some /\ r1.readlines = 1
           r  == IF again THEN try_readline(w2) ELSE r1
           out == live_response(r, mock)
       IN  /\ IS_SERIAL_ACTIVE' = r.active
           /\ wire' = IF r.readlines = 0 THEN Idle
                      ELSE IF again THEN w2 ELSE w1
           /\ io' = [opens |-> 0,
                     readlines |-> IF again THEN 2 ELSE r1.readlines,
                     exit |-> out.exit]
           /\ response' = [endpoint |-> "/biosignals/live",
                           status |-> out.status, body |-> out.body]
  /\ request' = [endpoint |-> "/biosignals/live", body |-> NoBody]
  /\ analysis' = NoAnalysis
  /\ UNCHANGED << started, serial_connection >>

\* GET /biosignals/live
get_live_biosignals ==
  /\ started
  /\ \E w \in Wire, mock \in generate_mock_data :
       LET r   == read_serial_data(w)
           out == live_response(r, mock)
       IN  /\ IS_SERIAL_ACTIVE' = r.active
           /\ wire' = IF r.readlines = 0 THEN Idle ELSE w
           /\ io' = [opens |-> 0, readlines |-> r.readlines,
                     exit |-> out.exit]
           /\ response' = [endpoint |-> "/biosignals/live",
                           status |-> out.status, body |-> out.body]
  /\ request' = [endpoint |-> "/biosignals/live", body |-> NoBody]
  /\ analysis' = NoAnalysis
  /\ UNCHANGED << started, serial_connection >>

\* mock_ai_analysis with the EEG threshold at 120 inclusive.
mock_ai_analysis_inclusive(data) ==
  LET value == data.reading_value
      risk  == IF data.signal_type = EEG /\ value >= 12000 THEN "High"
               ELSE IF data.signal_type = ECG /\ (value < 6500 \/ value > 9500)
               THEN "Moderate"
               ELSE "Low"
  IN  [action_suggestion |->
         IF risk = "High" THEN "Emergency Alert & System Shutdown"
         ELSE IF risk = "Moderate"
         THEN "Increase monitoring frequency and log event."
         ELSE "Continue passive monitoring.",
       risk_level |-> risk,
       consent_ledger_update |->
         <<"Consent ledger update mocked: New reading for ", data.user_id,
           " logged with Risk: ", risk, ".">>]

\* mock_ai_analysis(data).  The f-string of the ledger message is the tuple of
\* its literal and interpolated parts.
mock_ai_analysis(data) ==
  LET value == data.reading_value
      rule  == IF data.signal_type = EEG /\ value > 12000
               THEN [risk |-> "High",
                     action |-> "Emergency Alert & System Shutdown"]
               ELSE IF data.signal_type = ECG /\ (value < 6500 \/ value > 9500)
               THEN [risk |-> "Moderate",
                     action |-> "Increase monitoring frequency and log event."]
               ELSE [risk |-> "Low",
                     action |-> "Continue passive monitoring."]
      ledger_msg ==
        <<"Consent ledger update mocked: New reading for ", data.user_id,
          " logged with Risk: ", rule.risk, ".">>
  IN  [action_suggestion |-> rule.action, risk_level |-> rule.risk,
       consent_ledger_update |-> ledger_msg]

\* time.sleep(secs) blocks and returns None.
time_sleep ==
  None

\* `await x` raises TypeError unless x is awaitable; None is not.
Awaitable(x) ==
  x # None

\* The reading values a client posts, in hundredths: each threshold of the
\* rule table with its neighbours, and values well inside each rule.
PostedValues ==
  {200, 6000, 6499, 6500, 6501, 8000, 9499, 9500, 9501,
   11999, 12000, 12001, 13000}

\* The JSON bodies a client posts to /process_data.
PostedBodies ==
  [signal_type : SignalTypes \cup {XYZ},
   reading_value : {[json |-> "number", val |-> v] : v \in PostedValues}
                   \cup {[json |-> "null", val |-> 0]},
   user_id : {NG_User_1234, user42}]

\* POST /process_data.  FastAPI validates the body against BioSignalData before
\* the handler runs and answers 422 itself when that fails.
analyze_and_update ==
  /\ started
  /\ \E posted \in PostedBodies :
       LET data == BioSignalData(posted.signal_type, posted.reading_value.val,
                                 "import_time", posted.user_id)
       IN  /\ request' = [endpoint |-> "/process_data", body |-> posted]
           /\ IF posted.reading_value.json # "number" \/ ~data.ok
              THEN /\ analysis' = NoAnalysis
                   /\ response' = [endpoint |-> "/process_data",
                                   status |-> 422,
                                   body |-> UnprocessableEntity]
                   /\ io' = [opens |-> 0, readlines |-> 0,
                             exit |-> "rejected"]
              ELSE /\ analysis' = mock_ai_analysis(data.value)
                   /\ IF Awaitable(time_sleep)
                      THEN /\ response' = [endpoint |-> "/process_data",
                                           status |-> 200,
                                           body |-> analysis']
                           /\ io' = [opens |-> 0, readlines |-> 0,
                                     exit |-> "analysis"]
                      ELSE /\ response' = [endpoint |-> "/process_data",
                                           status |-> 500,
                                           body |-> InternalServerError]
                           /\ io' = [opens |-> 0, readlines |-> 0,
                                     exit |-> "raised"]
  /\ wire' = Idle
  /\ UNCHANGED << started, IS_SERIAL_ACTIVE, serial_connection >>

\* GET /
root ==
  /\ started
  /\ request' = [endpoint |-> "/", body |-> NoBody]
  /\ response' =
       [endpoint |-> "/", status |-> 200,
        body |-> [message |-> "NeuroGuard API is running.",
                  serial_status |->
                    IF IS_SERIAL_ACTIVE
                    THEN <<"Operational (Serial Active on ", SERIAL_PORT, ")">>
                    ELSE <<"Operational (Mock Data Mode)">>]]
  /\ io' = [opens |-> 0, readlines |-> 0, exit |-> "status"]
  /\ wire' = Idle
  /\ analysis' = NoAnalysis
  /\ UNCHANGED << started, IS_SERIAL_ACTIVE, serial_connection >>

\* random.randint(a, b): the ends of the range stand for the draws.
randint(a, b) ==
  {a, b}

\* GET /ledger/status
get_ledger_status ==
  /\ started
  /\ request' = [endpoint |-> "/ledger/status", body |-> NoBody]
  /\ \E block \in randint(1000000, 1500000), consents \in randint(5000, 10000) :
       response' =
         [endpoint |-> "/ledger/status", status |-> 200,
          body |-> [contract_name |-> "NeuroGuardConsentLedger",
                    status |-> "Operational",
                    last_block_number |-> block,
                    total_consents_recorded |-> consents]]
  /\ io' = [opens |-> 0, readlines |-> 0, exit |-> "ledger"]
  /\ wire' = Idle
  /\ analysis' = NoAnalysis
  /\ UNCHANGED << started, IS_SERIAL_ACTIVE, serial_connection >>

\* ------------------------------------------------------ the specification

\* The module as imported: lines 17 and 18, no request served yet.
Init ==
  /\ started = FALSE
  /\ IS_SERIAL_ACTIVE = FALSE
  /\ serial_connection = None
  /\ request = NoRequest
  /\ wire = Idle
  /\ io = NoIO
  /\ analysis = NoAnalysis
  /\ response = NoResponse

Next ==
  \/ startup_event
  \/ root
  \/ get_live_biosignals
  \/ analyze_and_update
  \/ get_ledger_status

Spec == Init /\ [][Next]_vars

\* ----------------------------------------------------------- properties

Live == "/biosignals/live"

\* The last request was a live-reading query that called readline() once.
LiveRead ==
  request.endpoint = Live /\ io.readlines = 1

\* A Reading with every field of the schema well-formed.
WellFormedReading(b) ==
  /\ DOMAIN b = {"signal_type", "reading_value", "timestamp", "user_id"}
  /\ b.signal_type \in SignalTypes
  /\ b.reading_value \in Int

\* The number a value text of the device spells.
NumVal(text) ==
  (CHOOSE t \in NumberTokens : t.text = text).val

\* The device sent a line of at least two fields whose second spells a number.
NumericLine(w) ==
  /\ w.kind = "line"
  /\ Len(w.fields) >= 2
  /\ w.fields[2] \in {t.text : t \in NumberTokens}

\* The device sent a non-blank line that does not parse to a Reading.
UnparsableLine(w) ==
  /\ w.kind = "line"
  /\ strip(Join(w.fields, w.pad)) # << >>
  /\ \/ Len(w.fields) < 2
     \/ w.fields[2] \in NotANumber
     \/ w.fields[1] \notin SignalTypes

\* The response carries the Reading of the device's line.
ParsedFrom(w) ==
  /\ response.status = 200
  /\ io.exit = "parsed"
  /\ response.body.signal_type = w.fields[1]
  /\ response.body.reading_value = NumVal(w.fields[2])
  /\ response.body.user_id =
       IF Len(w.fields) >= 3 THEN w.fields[3] ELSE NG_Serial_Device

\* The response carries a Reading of generate_mock_data, whole.
MockReturned ==
  /\ response.status = 200
  /\ io.exit = "mock"
  /\ response.body \in generate_mock_data

\* C1: the live-reading query never fails to the caller: whatever the
\* acquisition state and whatever the device read gives, the response is a
\* success carrying a well-formed Reading.
C1_LiveNeverFails ==
  response.endpoint = Live =>
    response.status = 200 /\ WellFormedReading(response.body)

\* C2: a posted Reading with an enumerated signal_type and a numeric
\* reading_value is answered with a success carrying the AnalysisResult; only an
\* invalid body is ever answered with a failure.
C2_ValidPostSucceeds ==
  (/\ request.endpoint = "/process_data"
   /\ request.body.signal_type \in SignalTypes
   /\ request.body.reading_value.json = "number")
  => (response.status = 200 /\ response.body = analysis)

\* C3: a transport failure of a device read is one-way: the failing read gives
\* no data (the request falls back to mock data) and clears the active flag, and
\* from every state in which a handle exists and the flag is cleared, the flag
\* stays cleared and no step calls readline() or opens the port again.
C3_ReadFailureIsOneWay ==
  [][ /\ (io'.readlines = 1 /\ wire'.kind = "SerialException")
          => (~IS_SERIAL_ACTIVE' /\ io'.exit = "mock" /\ response'.status = 200)
      /\ (started /\ serial_connection # None /\ ~IS_SERIAL_ACTIVE)
          => (~IS_SERIAL_ACTIVE' /\ io'.readlines = 0 /\ io'.opens = 0)
    ]_vars

\* A live-reading query served, after a read failure, without touching the
\* device.
C3_Witness ==
  /\ started
  /\ serial_connection # None
  /\ ~IS_SERIAL_ACTIVE
  /\ request.endpoint = Live
  /\ io.readlines = 0
  /\ io.exit = "mock"

\* C4: when the open fails at startup the flag is cleared and no handle is
\* kept, the process serves requests, and from then on no step reads or opens
\* the device and every live-reading query returns a generate_mock_data Reading.
C4_OpenFailureDegradesToMock ==
  [][ /\ (io'.opens = 1 /\ io'.exit = "SerialException")
          => (started' /\ ~IS_SERIAL_ACTIVE' /\ serial_connection' = None)
      /\ (started /\ serial_connection = None)
          => /\ serial_connection' = None
             /\ ~IS_SERIAL_ACTIVE'
             /\ io'.readlines = 0
             /\ io'.opens = 0
             /\ request'.endpoint = Live
                  => /\ response'.status = 200
                     /\ io'.exit = "mock"
                     /\ response'.body \in generate_mock_data
    ]_vars

\* A live-reading query served from mock data after the open had failed.
C4_Witness ==
  /\ started
  /\ serial_connection = None
  /\ ~IS_SERIAL_ACTIVE
  /\ request.endpoint = Live
  /\ io.exit = "mock"

\* C5: the analysis of every valid posted Reading follows the rule table, first
\* match winning: High with the shutdown action exactly for EEG above 120,
\* Moderate with the monitoring action exactly for ECG below 65 or above 95, Low
\* with the passive action otherwise; the ledger message embeds the Reading's
\* user_id and the computed risk.
C5_RuleTable ==
  (/\ request.endpoint = "/process_data"
   /\ request.body.signal_type \in SignalTypes
   /\ request.body.reading_value.json = "number")
  => LET d == request.body
         v == d.reading_value.val
         high     == d.signal_type = EEG /\ v > 12000
         moderate == d.signal_type = ECG /\ (v < 6500 \/ v > 9500)
     IN  /\ analysis.risk_level \in {"Low", "Moderate", "High"}
         /\ analysis.risk_level = "High" <=> high
         /\ analysis.risk_level = "Moderate" <=> moderate
         /\ analysis.risk_level = "High"
              => analysis.action_suggestion
                   = "Emergency Alert & System Shutdown"
         /\ analysis.risk_level = "Moderate"
              => analysis.action_suggestion
                   = "Increase monitoring frequency and log event."
         /\ analysis.risk_level = "Low"
              => analysis.action_suggestion = "Continue passive monitoring."
         /\ analysis.consent_ledger_update[2] = d.user_id
         /\ analysis.consent_ledger_update[4] = analysis.risk_level

\* An EEG reading of exactly 120 analysed as Low.
C5_Witness ==
  /\ request.endpoint = "/process_data"
  /\ request.body.signal_type = EEG
  /\ request.body.reading_value.json = "number"
  /\ request.body.reading_value.val = 12000
  /\ analysis.risk_level = "Low"

\* C6 as stated: every line of at least two fields whose second is a number
\* comes back as the Reading parsed from it, the first field passed through
\* whether or not it is an enumerated signal type.
C6_AnyTokenPassedThrough ==
  (LiveRead /\ NumericLine(wire)) => ParsedFrom(wire)

\* C6 amended: a line of at least two fields whose first, trimmed, is EEG, ECG
\* or GSR and whose second is a number comes back as the Reading parsed from
\* it (field 1, field 2, and field 3 or "NG-Serial-Device"); with a first field
\* outside the three kinds it is not passed through, and mock data comes back.
C6_ParsedWhenTypeEnumerated ==
  (LiveRead /\ NumericLine(wire))
  => IF wire.fields[1] \in SignalTypes THEN ParsedFrom(wire) ELSE MockReturned

\* A two-field line returned as a parsed Reading with the placeholder user id.
C6_Witness ==
  /\ LiveRead
  /\ NumericLine(wire)
  /\ Len(wire.fields) = 2
  /\ wire.pad > 0
  /\ io.exit = "parsed"
  /\ response.body.user_id = NG_Serial_Device

\* C7: a line that fails to parse (fewer than two fields, a second field that
\* is no number, an exception while the Reading is built) is answered in the
\* same request with a Reading of generate_mock_data, whole: no field of it
\* comes from the failed line or from a default of the schema.
C7_ParseFailureGivesMock ==
  (LiveRead /\ UnparsableLine(wire)) => MockReturned

\* The line "EEG,abc" answered with mock data.
C7_Witness ==
  /\ LiveRead
  /\ wire.kind = "line"
  /\ wire.fields = << EEG, <<"a", "b", "c">> >>
  /\ io.exit = "mock"

\* C8: every Reading a live-reading response carries has its signal_type among
\* EEG, ECG, GSR, whatever the device sent.
C8_SignalTypeEnumerated ==
  (response.endpoint = Live /\ response.status = 200)
  => response.body.signal_type \in SignalTypes

\* A numeric line with the token XYZ, answered with a Reading.
C8_Witness ==
  /\ LiveRead
  /\ NumericLine(wire)
  /\ wire.fields[1] = XYZ
  /\ response.status = 200

\* C9: a live-reading request calls readline() at most once and never opens the
\* port, and when the one read times out or gives a blank line, fails in
\* transport, or gives a line that does not parse, the same request answers
\* with mock data.
C9_NoRetry ==
  request.endpoint = Live
  => /\ io.readlines <= 1
     /\ io.opens = 0
     /\ (/\ io.readlines = 1
         /\ \/ wire.kind \in {"timeout", "SerialException"}
            \/ wire.kind = "line" /\ strip(Join(wire.fields, wire.pad)) = << >>
            \/ UnparsableLine(wire))
        => MockReturned

\* A read that timed out, answered with mock data after that one read.
C9_Witness ==
  /\ LiveRead
  /\ wire.kind = "timeout"
  /\ io.exit = "mock"

\* C10: once started, no step changes the connection handle, and the only step
\* that changes the active flag is a live-reading query whose read fails in
\* transport, which clears it: blank, unparsable and parsed lines and the other
\* three endpoints leave both unchanged.
C10_OnlyReadFailureChangesState ==
  [][ started =>
        /\ serial_connection' = serial_connection
        /\ IS_SERIAL_ACTIVE' # IS_SERIAL_ACTIVE
             => /\ IS_SERIAL_ACTIVE
                /\ ~IS_SERIAL_ACTIVE'
                /\ request'.endpoint = Live
                /\ io'.readlines = 1
                /\ wire'.kind = "SerialException"
    ]_vars

\* An unparsable line read with the connection still active afterwards.
C10_Witness ==
  /\ IS_SERIAL_ACTIVE
  /\ LiveRead
  /\ UnparsableLine(wire)
  /\ io.exit = "mock"

====
